---- MODULE Spec2Model ----
(***************************************************************************)
(* Model of the obsync synchronisation engine (src/plugin/github.ts) and   *)
(* of the host plugin that drives it (the plugin class in                  *)
(* src/plugin/func.ts, the vault adapter in src/unnamed/part_000).         *)
(*                                                                         *)
(* Paths are numbers 1..MaxPaths.  A content is a text, a sequence of       *)
(* characters, and a character is given by its class of encoding (see      *)
(* Chars).  The files of the vault and of the remote hold the ASCII texts  *)
(* of 1..MaxContent letters.  Commit ids are indices into the remote's     *)
(* sequence of commits.  A remote tree (type Repo) is a function from the  *)
(* paths it holds to blob ids.                                             *)
(*                                                                         *)
(* An async function is one action per wait on the remote store or on the  *)
(* vault; the code between two waits is part of the action that ends at    *)
(* the later wait.  sendCommit hands its tree to the engine with           *)
(* "github.stage(tree); github.commit()"; the engine of github.ts takes    *)
(* the tree as the argument of commit (Github.commit, line 72), and the    *)
(* model calls commit(tree).  Fields and counters called bookkeeping are   *)
(* not program state: they record what happened for the properties below.  *)
(*                                                                         *)
(* Spec is the whole engine with its host.  SpecPull, SpecTracker,         *)
(* SpecSummary, SpecHash and SpecOnload each run one component over all of *)
(* its inputs; the variable aux holds what such a component needs beyond   *)
(* the engine's state.  SpecSend, and SpecSendFair with its fairness, are  *)
(* the per-file sync of src/plugin/main.ts (its client is                  *)
(* src/unnamed/part_002); SpecResult is the Result library of func.ts.     *)
(***************************************************************************)
EXTENDS Integers, Sequences, FiniteSets, TLC

\* ---------------------------------------------------------------- bounds
MaxPaths == 2
MaxContent == 2
MaxRuns == 2
MaxEmpty == 2
MaxEvents == 2
MaxFail == 1
MaxPulls == 1
MaxFiles == 5
MaxText == 3

Paths == 1..MaxPaths
Slots == 1..MaxRuns

\* ---------------------------------------------------------------- values
\* JavaScript's undefined (a missing property of a Repo) and the null sha of
\* a tombstone tree item.
Undefined == <<0>>
NullSha == <<>>

\* A character is one of four classes of code points:
\*   1  U+0000..U+007F    one UTF-16 unit,  one byte in UTF-8   ("a")
\*   2  U+0080..U+07FF    one UTF-16 unit,  two bytes           ("\u00e9")
\*   3  U+0800..U+FFFF    one UTF-16 unit,  three bytes         ("\u20ac")
\*   4  U+10000..         two UTF-16 units, four bytes          (an emoji)
Chars == 1..4

Units(ch) == IF ch = 4 THEN 2 ELSE 1

Bytes(ch) == ch

\* The ASCII text of n letters.
Ascii(n) == [k \in 1..n |-> 1]

Contents == {Ascii(n) : n \in 1..MaxContent}

\* A path of the vault with no file at it (vault.getFile gives None).
NoFile == <<0>>

\* content.length: the number of UTF-16 units of the text.
RECURSIVE Length(_)
Length(content) ==
    IF content = <<>> THEN 0
    ELSE Units(Head(content)) + Length(Tail(content))

\* Buffer.from(content).length: the number of bytes of the text in UTF-8.
RECURSIVE ByteLength(_)
ByteLength(content) ==
    IF content = <<>> THEN 0
    ELSE Bytes(Head(content)) + ByteLength(Tail(content))

\* computeSha: SHA-1 of the header "blob <content.length>\0" and the content.
computeSha(content) == <<Length(content), content>>

\* The blob id the remote store gives a content: SHA-1 of the header
\* "blob <byte length>\0" and the content's bytes.
RemoteBlobId(content) == <<ByteLength(content), content>>

\* The content of the blob with id sha, as getFile decodes it (atob of the
\* base64 text; the identity on ASCII texts).
BlobContent(sha) == sha[2]

EmptyRepo == [p \in {} |-> Undefined]

\* repo[path]?.sha
ShaAt(repo, path) == IF path \in DOMAIN repo THEN repo[path] ELSE Undefined

createTreeItem(path, sha) == [path |-> path, sha |-> sha]

\* ------------------------------------------------------- summary
\* A string is the sequence of the pieces it is put together from.  The
\* name of path p is the numeral of p.
PathName(path) == ToString(path)

\* files.join(separator)
RECURSIVE join(_, _)
join(files, separator) ==
    IF Len(files) = 0 THEN <<>>
    ELSE IF Len(files) = 1 THEN <<PathName(files[1])>>
    ELSE <<PathName(files[1]), separator>> \o join(Tail(files), separator)

\* files.slice(start, end)
slice(files, start, end) ==
    SubSeq(files, start + 1, IF end < Len(files) THEN end ELSE Len(files))

\* summary with "files.length < 3" for "files.length <= 3".
summaryShort(files) ==
    IF Len(files) = 0 THEN <<"no files">>
    ELSE IF Len(files) < 3 THEN <<"updated ">> \o join(files, ", ")
    ELSE <<"updated ">> \o join(slice(files, 0, 3), ", ")
            \o <<" and ", ToString(Len(files) - 3), " more">>

summary(files) ==
    IF Len(files) = 0 THEN <<"no files">>
    ELSE IF Len(files) <= 3 THEN <<"updated ">> \o join(files, ", ")
    ELSE <<"updated ">> \o join(slice(files, 0, 3), ", ")
            \o <<" and ", ToString(Len(files) - 3), " more">>

\* files.map((t) => t.path)
PathsOf(files) == [k \in 1..Len(files) |-> files[k].path]

VARIABLES
    ref,        \* remote: the commit the branch points at
    commits,    \* remote: sequence of commits [message, tree, parent, by]
    sha,        \* githubState: closure variable sha
    tree,       \* githubState: closure variable tree
    mods,       \* githubState: closure variable mods, in insertion order
    q,          \* github: closure variable q
    pstate,     \* plugin: this.state, [sha, tree]
    subscribed, \* plugin: subscribe() has run
    armed,      \* plugin: the debounced push has a timer pending
    local,      \* vault: path -> content, NoFile when there is no file
    runs,       \* one record per sendCommit invocation in progress
    pl,         \* the pull invocation in progress
    emptyRet,   \* what the last commit([]) returned
    cnt,        \* bookkeeping of the bounds
    aux         \* the component specifications' own state (see each)

vars == <<ref, commits, sha, tree, mods, q, pstate, subscribed, armed, local,
          runs, pl, emptyRet, cnt, aux>>

remoteVars == <<ref, commits>>
engineVars == <<sha, tree, mods, q>>

\* ------------------------------------------------------- githubState
\* The Modification { path, action }.
Modification(path, action) == [path |-> path, action |-> action]

\* mods[key] = mod without the test for an existing key: every assignment
\* adds an entry.
SetModAppends(m, key, mod) ==
    Append(m, [key |-> key, path |-> mod.path, action |-> mod.action])

\* mods[key] = mod.  The object mods is the sequence of its entries in
\* insertion order, each with its key: an existing key keeps its place, a
\* new key goes last.
SetMod(m, key, mod) ==
    LET entry == [key |-> key, path |-> mod.path, action |-> mod.action]
        at == {k \in 1..Len(m) : m[k].key = key}
    IN IF at = {} THEN Append(m, entry)
       ELSE [k \in 1..Len(m) |-> IF k \in at THEN entry ELSE m[k]]

create(m, path) == SetMod(m, path, Modification(path, "create"))

update(m, path) == SetMod(m, path, Modification(path, "update"))

delete(m, path) == SetMod(m, path, Modification(path, "delete"))

\* rename that stores the Modification of type "rename" under the new path.
renameStored(m, path, previousPath) ==
    SetMod(m, path, Modification(path, "rename"))

rename(m, path, previousPath) ==
    SetMod(SetMod(m, path, Modification(path, "create")),
           previousPath, Modification(previousPath, "delete"))

\* refresh: (sha, tree) => { mods = {}; sha = sha; tree = tree; }
\* The parameters shadow the closure variables of the same names, so the two
\* assignments assign each parameter to itself: only mods changes.
refresh(st, shaParam, treeParam) ==
    [mods |-> <<>>, sha |-> st.sha, tree |-> st.tree]

State == [mods |-> mods, sha |-> sha, tree |-> tree]

\* ------------------------------------------------------- remote store
\* getRef: the commit the branch points at.
getRef == ref

\* getTree: the flattened tree of a commit, directories left out.
getTree(commit) == commits[commit].tree

\* createTree: the tree of base_tree with the items laid over it; an item
\* with a null sha removes its path.
createTree(baseTree, fileBlobs) ==
    LET items == {fileBlobs[k] : k \in 1..Len(fileBlobs)}
        removed == {it.path : it \in {x \in items : x.sha = NullSha}}
        written == {it.path : it \in {x \in items : x.sha # NullSha}}
        base == getTree(baseTree)
    IN [p \in ((DOMAIN base) \ removed) \cup written |->
          IF p \in written
          THEN (CHOOSE it \in items : it.path = p /\ it.sha # NullSha).sha
          ELSE base[p]]

\* createCommit: a new commit with one parent; its id is the next index.
\* The field by is bookkeeping: the number of the commit() call that made it.
createCommit(message, treeSha, parentSha, by) ==
    Append(commits, [message |-> message, tree |-> treeSha,
                     parent |-> parentSha, by |-> by])

RECURSIVE IsAncestor(_, _)
IsAncestor(a, c) ==
    \/ a = c
    \/ commits[c].parent # 0 /\ IsAncestor(a, commits[c].parent)

\* updateRef without force is a fast-forward or is rejected.
updateRefAccepted(newSha) == IsAncestor(ref, newSha)

\* getFile: the content of path at the head of the branch; the request is
\* rejected when the head has no such file.
getFileFound(path) == path \in DOMAIN getTree(ref)

getFile(path) == BlobContent(getTree(ref)[path])

\* ------------------------------------------------------- processes
NoRet == [sha |-> 0, tree |-> EmptyRepo]

IdleRun ==
    [pc |-> "idle", seq |-> 0, files |-> <<>>, repo |-> EmptyRepo, i |-> 0,
     t |-> <<>>, batch |-> <<>>, latest |-> 0, treeData |-> EmptyRepo,
     newCommit |-> 0, ret |-> NoRet, behind |-> 0, nMut |-> 0, events |-> 0]

IdlePull ==
    [pc |-> "idle", onload |-> FALSE, prevTree |-> EmptyRepo, latest |-> 0,
     tree |-> EmptyRepo, updated |-> <<>>, pending |-> {}, res |-> EmptyRepo,
     widx |-> 0, wfail |-> {}, gfail |-> {}]

\* The pcs at which a commit() call is between its getRef and its end.
InFlightPcs == {"getRef", "createTree", "createCommit", "updateRef", "getTree"}

InFlight(r) == runs[r].pc \in InFlightPcs

\* Bookkeeping: the number of the latest commit() call that is in flight,
\* 0 when none is.
LatestInFlight ==
    LET seqs == {runs[o].seq : o \in {x \in Slots : InFlight(x)}}
    IN IF seqs = {} THEN 0 ELSE CHOOSE s \in seqs : \A o \in seqs : o <= s

CanFail == cnt.fails < MaxFail

Failed == [cnt EXCEPT !.fails = @ + 1]

\* All trees over Paths and Contents.
Repos ==
    UNION {[S -> {RemoteBlobId(c) : c \in Contents}] : S \in SUBSET Paths}

\* The vault of a replica that holds exactly the files of a tree.
LocalOf(repo) ==
    [p \in Paths |-> IF p \in DOMAIN repo THEN BlobContent(repo[p]) ELSE NoFile]

RECURSIVE SeqOf(_)
SeqOf(S) ==
    IF S = {} THEN <<>>
    ELSE LET m == CHOOSE x \in S : \A y \in S : x <= y
         IN <<m>> \o SeqOf(S \ {m})

\* aux in the specifications of the whole engine, which do not use it.
NoAux == <<>>

\* ------------------------------------------------------- initial state
\* The state in onload after github(settings) has been constructed: the
\* plugin state is the one persisted by an earlier session at commit 1, the
\* remote has since moved to commit 2, githubState has read the reference
\* and its tree, and the pull of onload has been called.
InitWith(persistedTrees, remoteTrees) ==
    \E pt \in persistedTrees, rt \in remoteTrees :
        /\ commits = <<[message |-> <<>>, tree |-> pt, parent |-> 0, by |-> 0],
                       [message |-> <<>>, tree |-> rt, parent |-> 1, by |-> 0]>>
        /\ ref = 2
        /\ sha = 2
        /\ tree = rt
        /\ mods = <<>>
        /\ q = <<>>
        /\ pstate = [sha |-> 1, tree |-> pt]
        /\ subscribed = FALSE
        /\ armed = FALSE
        /\ local = LocalOf(pt)
        /\ runs = [r \in Slots |-> IdleRun]
        /\ pl = [IdlePull EXCEPT !.pc = "getRef", !.onload = TRUE,
                                 !.prevTree = pt]
        /\ emptyRet = NoRet
        /\ cnt = [events |-> 0, fails |-> 0, pulls |-> 0, calls |-> 0,
                  noops |-> 0, empties |-> 0]
        /\ aux = NoAux

Init ==
    InitWith({EmptyRepo, [p \in {1} |-> RemoteBlobId(Ascii(1))]},
             {[p \in {1} |-> RemoteBlobId(Ascii(2))]})

\* ------------------------------------------------------- file events
\* Each handler records the change and calls the debounced push, which
\* (re)starts the timer of sendCommit.
Event == /\ subscribed
         /\ cnt.events < MaxEvents
         /\ cnt' = [cnt EXCEPT !.events = @ + 1]
         /\ armed' = TRUE
         /\ UNCHANGED <<remoteVars, sha, tree, q, pstate, subscribed, runs,
                        pl, emptyRet, aux>>

\* A file is created in the vault.
onCreate(path, content) ==
    /\ local[path] = NoFile
    /\ local' = [local EXCEPT ![path] = content]
    /\ mods' = create(mods, path)
    /\ Event

\* A file of the vault is written (the content may be the one it had).
onModify(path, content) ==
    /\ local[path] # NoFile
    /\ local' = [local EXCEPT ![path] = content]
    /\ mods' = update(mods, path)
    /\ Event

onDelete(path) ==
    /\ local[path] # NoFile
    /\ local' = [local EXCEPT ![path] = NoFile]
    /\ mods' = delete(mods, path)
    /\ Event

\* The file at prev is moved to path.
onRename(path, prev) ==
    /\ local[prev] # NoFile
    /\ local[path] = NoFile
    /\ local' = [local EXCEPT ![path] = local[prev], ![prev] = NoFile]
    /\ mods' = rename(mods, path, prev)
    /\ Event

\* ------------------------------------------------------- buildTree
\* The iterations of buildTree's loop that do not wait: from index i on,
\* every "delete" adds a tombstone, up to the next "create"/"update" (which
\* waits for getContent) or the end of files.  Gives <<index, t>>.
RECURSIVE SyncIterations(_, _, _)
SyncIterations(files, i, t) ==
    IF i > Len(files) THEN <<i, t>>
    ELSE IF files[i].action = "delete"
         THEN SyncIterations(files, i + 1,
                             Append(t, createTreeItem(files[i].path, NullSha)))
         ELSE IF files[i].action = "rename"
              THEN SyncIterations(files, i + 1, t)
              ELSE <<i, t>>

\* One "create"/"update" iteration once content and blob sha are known:
\* the item is kept unless computeSha(content) equals repo[path]?.sha.
BuildItem(t, repo, path, content, blobSha) ==
    IF computeSha(content) # ShaAt(repo, path)
    THEN Append(t, createTreeItem(path, blobSha))
    ELSE t

\* Where a sendCommit stands after the loop has advanced to <<i, t>>.
Advance(run, it) ==
    [run EXCEPT !.i = it[1], !.t = it[2],
                !.pc = IF it[1] > Len(run.files) THEN "built" ELSE "build"]

\* ------------------------------------------------------- sendCommit
FreeSlot(r) ==
    /\ runs[r].pc = "idle"
    /\ \A o \in Slots : o < r => runs[o].pc # "idle"

\* SendCommitEmpty without "if (tree.length === 0) return": the empty tree
\* goes to commit and the result is stored.
SendCommitEmptyNoReturn ==
    /\ armed
    /\ mods = <<>>
    /\ armed' = FALSE
    /\ cnt' = [cnt EXCEPT !.noops = @ + 1]
    /\ pstate' = [pstate EXCEPT !.sha = sha, !.tree = tree]
    /\ UNCHANGED <<remoteVars, engineVars, subscribed, local, runs, pl,
                   emptyRet, aux>>

\* The debounce timer fires with nothing pending: buildTree's loop has no
\* iteration, tree.length is 0 and sendCommit returns.
SendCommitEmpty ==
    /\ armed
    /\ mods = <<>>
    /\ armed' = FALSE
    /\ cnt' = [cnt EXCEPT !.noops = @ + 1]
    /\ UNCHANGED <<remoteVars, engineVars, pstate, subscribed, local, runs, pl,
                   emptyRet, aux>>

\* The debounce timer fires: sendCommit calls github.buildTree, which takes
\* Object.values(state.mods()) and state.tree() and starts the loop.
SendCommit(r) ==
    /\ armed
    /\ mods # <<>>
    /\ FreeSlot(r)
    /\ armed' = FALSE
    /\ runs' = [runs EXCEPT ![r] =
           Advance([IdleRun EXCEPT !.files = mods, !.repo = tree,
                                   !.events = cnt.events],
                   SyncIterations(mods, 1, <<>>))]
    /\ UNCHANGED <<remoteVars, engineVars, pstate, subscribed, local, pl,
                   emptyRet, cnt, aux>>

\* One "create"/"update" iteration: getContent reads the vault (read throws
\* "file not found" when there is no file), createBlob uploads the content,
\* then the hash is compared.  A throw or a failed createBlob rejects
\* buildTree, and sendCommit with it.  The two waits are one step: between
\* them the iteration holds only its own content, and the uploaded blob is
\* seen by nobody else.  nMut is bookkeeping: the createBlob calls sent.
BuildStep(r, ok) ==
    LET run == runs[r]
        mod == run.files[run.i]
        content == local[mod.path]
    IN /\ run.pc = "build"
       /\ IF content = NoFile
          THEN /\ ok
               /\ runs' = [runs EXCEPT ![r].pc = "threw"]
               /\ cnt' = cnt
          ELSE IF ok
          THEN /\ runs' = [runs EXCEPT ![r] =
                    Advance([run EXCEPT !.nMut = @ + 1],
                            SyncIterations(run.files, run.i + 1,
                                BuildItem(run.t, run.repo, mod.path, content,
                                          RemoteBlobId(content))))]
               /\ cnt' = cnt
          ELSE /\ CanFail
               /\ runs' = [runs EXCEPT ![r].pc = "threw", ![r].nMut = @ + 1]
               /\ cnt' = Failed
       /\ UNCHANGED <<remoteVars, engineVars, pstate, subscribed, armed, local,
                      pl, emptyRet, aux>>

\* The rejection of buildTree leaves sendCommit; nothing handles it.
SendCommitThrew(r) ==
    /\ runs[r].pc = "threw"
    /\ runs' = [runs EXCEPT ![r] = IdleRun]
    /\ UNCHANGED <<remoteVars, engineVars, pstate, subscribed, armed, local,
                   pl, emptyRet, cnt, aux>>

\* ------------------------------------------------------- commit
\* commit([]) and the !files return: { sha: state.sha(), tree: state.tree() }
commitEmpty == [sha |-> sha, tree |-> tree]

\* q after "if (blobs.length > 0) q.push(blobs)"
qPushed(blobs) == IF Len(blobs) > 0 THEN Append(q, blobs) ELSE q

\* Finally with "return commit([])" taken whatever q holds: the outcome of
\* the run, a throw included, is replaced by the result of commit([]).
FinallyReturnsAlways(run, thrown) ==
    [run EXCEPT !.pc = "returned", !.ret = [sha |-> sha, tree |-> tree]]

\* The finally block of commit, for a run that returned (thrown FALSE) or
\* threw: with a batch waiting in q it returns commit([]) in their place.
Finally(run, thrown) ==
    IF Len(q) > 0
    THEN [run EXCEPT !.pc = "returned", !.ret = commitEmpty]
    ELSE IF thrown THEN [run EXCEPT !.pc = "failed"] ELSE run

\* SendCommitBuilt whose commit shifts q only when no other run is in
\* flight: a batch submitted behind a run stays in q while it is committed.
SendCommitBuiltKeepsQueued(r) ==
    LET run == runs[r]
    IN /\ run.pc = "built"
       /\ IF Len(run.t) = 0
          THEN /\ runs' = [runs EXCEPT ![r] = IdleRun]
               /\ UNCHANGED <<q, cnt>>
          ELSE /\ q' = IF LatestInFlight = 0 THEN Tail(qPushed(run.t))
                                             ELSE qPushed(run.t)
               /\ cnt' = [cnt EXCEPT !.calls = @ + 1]
               /\ runs' = [runs EXCEPT ![r] =
                      [run EXCEPT !.pc = "getRef",
                                  !.seq = cnt.calls + 1,
                                  !.batch = Head(qPushed(run.t)),
                                  !.behind = LatestInFlight]]
       /\ UNCHANGED <<remoteVars, sha, tree, mods, pstate, subscribed, armed,
                      local, pl, emptyRet, aux>>

\* After buildTree: "if (tree.length === 0) return", else the tree is
\* handed to commit, which pushes it on q, shifts the head of q into files
\* and calls getRef.  The run keeps what sendCommit and buildTree held
\* (files, t, the count of events at the capture) as bookkeeping.
SendCommitBuilt(r) ==
    LET run == runs[r]
    IN /\ run.pc = "built"
       /\ IF Len(run.t) = 0
          THEN /\ runs' = [runs EXCEPT ![r] = IdleRun]
               /\ UNCHANGED <<q, cnt>>
          ELSE /\ q' = Tail(qPushed(run.t))
               /\ cnt' = [cnt EXCEPT !.calls = @ + 1]
               /\ runs' = [runs EXCEPT ![r] =
                      [run EXCEPT !.pc = "getRef",
                                  !.seq = cnt.calls + 1,
                                  !.batch = Head(qPushed(run.t)),
                                  !.behind = LatestInFlight]]
       /\ UNCHANGED <<remoteVars, sha, tree, mods, pstate, subscribed, armed,
                      local, pl, emptyRet, aux>>

\* A remote-store call of the run fails: catch rethrows, finally runs.
CommitFails(r) ==
    /\ InFlight(r)
    /\ CanFail
    /\ cnt' = Failed
    /\ runs' = [runs EXCEPT ![r] = Finally(runs[r], TRUE)]
    /\ UNCHANGED <<remoteVars, engineVars, pstate, subscribed, armed, local,
                   pl, emptyRet, aux>>

CommitGetRef(r) ==
    /\ runs[r].pc = "getRef"
    /\ runs' = [runs EXCEPT ![r].latest = getRef, ![r].pc = "createTree"]
    /\ UNCHANGED <<remoteVars, engineVars, pstate, subscribed, armed, local,
                   pl, emptyRet, cnt, aux>>

\* CommitCreateTree that merges into its tree the batch of another run in
\* flight.
CommitCreateTreeMerged(r) ==
    LET others == {o \in Slots \ {r} : InFlight(o)}
        merged == IF others = {} THEN runs[r].batch
                  ELSE runs[r].batch \o runs[CHOOSE o \in others : TRUE].batch
    IN /\ runs[r].pc = "createTree"
       /\ runs' = [runs EXCEPT
                     ![r].treeData = createTree(runs[r].latest, merged),
                     ![r].pc = "createCommit"]
       /\ UNCHANGED <<remoteVars, engineVars, pstate, subscribed, armed, local,
                      pl, emptyRet, cnt, aux>>

CommitCreateTree(r) ==
    /\ runs[r].pc = "createTree"
    /\ runs' = [runs EXCEPT
                  ![r].treeData = createTree(runs[r].latest, runs[r].batch),
                  ![r].pc = "createCommit"]
    /\ UNCHANGED <<remoteVars, engineVars, pstate, subscribed, armed, local,
                   pl, emptyRet, cnt, aux>>

\* CommitCreateCommit with the snapshot's reference, not the reference the
\* run read, as the parent of the commit.
CommitCreateCommitOnSnapshot(r) ==
    /\ runs[r].pc = "createCommit"
    /\ commits' = createCommit(summary(PathsOf(runs[r].batch)),
                                runs[r].treeData, sha, runs[r].seq)
    /\ runs' = [runs EXCEPT ![r].newCommit = Len(commits'),
                            ![r].pc = "updateRef"]
    /\ UNCHANGED <<ref, engineVars, pstate, subscribed, armed, local, pl,
                   emptyRet, cnt, aux>>

CommitCreateCommit(r) ==
    /\ runs[r].pc = "createCommit"
    /\ commits' = createCommit(summary(PathsOf(runs[r].batch)),
                                runs[r].treeData, runs[r].latest, runs[r].seq)
    /\ runs' = [runs EXCEPT ![r].newCommit = Len(commits'),
                            ![r].pc = "updateRef"]
    /\ UNCHANGED <<ref, engineVars, pstate, subscribed, armed, local, pl,
                   emptyRet, cnt, aux>>

\* updateRef is called without force: the remote store moves the branch
\* when the new commit descends from the commit the branch points at, and
\* rejects the request otherwise.
CommitUpdateRef(r) ==
    /\ runs[r].pc = "updateRef"
    /\ IF updateRefAccepted(runs[r].newCommit)
       THEN /\ ref' = runs[r].newCommit
            /\ runs' = [runs EXCEPT ![r].pc = "getTree"]
       ELSE /\ ref' = ref
            /\ runs' = [runs EXCEPT ![r] = Finally(runs[r], TRUE)]
    /\ UNCHANGED <<commits, engineVars, pstate, subscribed, armed, local, pl,
                   emptyRet, cnt, aux>>

\* CommitGetTree that returns the new commit with state.tree() in place of
\* the tree fetched at that commit.
CommitGetTreeReturnsSnapshot(r) ==
    LET run == runs[r]
        st == refresh(State, run.newCommit, getTree(run.newCommit))
    IN /\ run.pc = "getTree"
       /\ mods' = st.mods
       /\ sha' = st.sha
       /\ tree' = st.tree
       /\ runs' = [runs EXCEPT ![r] =
              Finally([run EXCEPT !.pc = "returned",
                                  !.ret = [sha |-> run.newCommit,
                                           tree |-> st.tree]], FALSE)]
       /\ UNCHANGED <<remoteVars, q, pstate, subscribed, armed, local, pl,
                      emptyRet, cnt, aux>>

\* getTree answers: state.refresh(newCommit, tree), return { sha, tree },
\* then the finally block.
CommitGetTree(r) ==
    LET run == runs[r]
        fetched == getTree(run.newCommit)
        st == refresh(State, run.newCommit, fetched)
    IN /\ run.pc = "getTree"
       /\ mods' = st.mods
       /\ sha' = st.sha
       /\ tree' = st.tree
       /\ runs' = [runs EXCEPT ![r] =
              Finally([run EXCEPT !.pc = "returned",
                                  !.ret = [sha |-> run.newCommit,
                                           tree |-> fetched]], FALSE)]
       /\ UNCHANGED <<remoteVars, q, pstate, subscribed, armed, local, pl,
                      emptyRet, cnt, aux>>

\* updateState: this.state = { ...this.state, sha, tree }
updateState(s, newSha, newTree) == [s EXCEPT !.sha = newSha, !.tree = newTree]

\* SendCommitOk that stores state.sha() and state.tree(), as plugin.pull
\* does, in place of the result of commit.
SendCommitOkStoresState(r) ==
    /\ runs[r].pc = "returned"
    /\ pstate' = updateState(pstate, sha, tree)
    /\ runs' = [runs EXCEPT ![r] = IdleRun]
    /\ UNCHANGED <<remoteVars, engineVars, subscribed, armed, local, pl,
                   emptyRet, cnt, aux>>

\* commit resolved: sendCommit stores the result.
SendCommitOk(r) ==
    /\ runs[r].pc = "returned"
    /\ pstate' = updateState(pstate, runs[r].ret.sha, runs[r].ret.tree)
    /\ runs' = [runs EXCEPT ![r] = IdleRun]
    /\ UNCHANGED <<remoteVars, engineVars, subscribed, armed, local, pl,
                   emptyRet, cnt, aux>>

\* SendCommitCatch that stores state.sha() and state.tree() after the
\* failure, as plugin.pull does after a pull.
SendCommitCatchStoresState(r) ==
    /\ runs[r].pc = "failed"
    /\ pstate' = updateState(pstate, sha, tree)
    /\ runs' = [runs EXCEPT ![r] = IdleRun]
    /\ UNCHANGED <<remoteVars, engineVars, subscribed, armed, local, pl,
                   emptyRet, cnt, aux>>

\* commit rejected: sendCommit's catch reports the error.
SendCommitCatch(r) ==
    /\ runs[r].pc = "failed"
    /\ runs' = [runs EXCEPT ![r] = IdleRun]
    /\ UNCHANGED <<remoteVars, engineVars, pstate, subscribed, armed, local,
                   pl, emptyRet, cnt, aux>>

\* A client calls commit([]).
CommitEmptyBatch ==
    /\ cnt.empties < MaxEmpty
    /\ cnt' = [cnt EXCEPT !.empties = @ + 1]
    /\ emptyRet' = commitEmpty
    /\ UNCHANGED <<remoteVars, engineVars, pstate, subscribed, armed, local,
                   runs, pl, aux>>

\* ------------------------------------------------------- pull
\* Updated without the "!prevTree[path]" test: a path prevTree lacks is
\* not selected.
UpdatedSkipsNew(newTree, prevTree) ==
    LET Keep(path) ==
            /\ ShaAt(prevTree, path) # Undefined
            /\ ShaAt(prevTree, path) # newTree[path]
    IN SelectSeq(SeqOf(DOMAIN newTree), Keep)

\* Object.entries(tree).filter(([path, { sha }]) =>
\*     !prevTree[path] || prevTree[path].sha !== sha), as the paths kept.
Updated(newTree, prevTree) ==
    LET Keep(path) ==
            \/ ShaAt(prevTree, path) = Undefined
            \/ ShaAt(prevTree, path) # newTree[path]
    IN SelectSeq(SeqOf(DOMAIN newTree), Keep)

\* path.startsWith(".obsidian"): paths 1 and 2 are notes, any further path
\* is a file of the configuration folder.
StartsWithObsidian(path) == path > 2

\* The command "obsync-pull": this.pull(this.state.tree).
PullCommand ==
    /\ pl.pc = "idle"
    /\ cnt.pulls < MaxPulls
    /\ cnt' = [cnt EXCEPT !.pulls = @ + 1]
    /\ pl' = [IdlePull EXCEPT !.pc = "getRef", !.prevTree = pstate.tree]
    /\ UNCHANGED <<remoteVars, engineVars, pstate, subscribed, armed, local,
                   runs, emptyRet, aux>>

\* github.pull once every getFile has answered: state.refresh(latest, tree)
\* and return res; plugin.pull then starts writing, or ends at once when
\* no file changed.  Gives <<pl, state, plugin state>>.
PullFetched(p) ==
    LET st == refresh(State, p.latest, p.tree)
    IN IF Len(p.updated) = 0
       THEN <<[p EXCEPT !.pc = "done"], st, updateState(pstate, st.sha, st.tree)>>
       ELSE <<[p EXCEPT !.pc = "write", !.widx = 1], st, pstate>>

PullGetRef ==
    /\ pl.pc = "getRef"
    /\ pl' = [pl EXCEPT !.latest = getRef, !.pc = "getTree"]
    /\ UNCHANGED <<remoteVars, engineVars, pstate, subscribed, armed, local,
                   runs, emptyRet, cnt, aux>>

\* getTree answers: the changed paths are selected and one getFile per
\* changed path is sent.
PullGetTree ==
    LET fetched == getTree(pl.latest)
        upd == Updated(fetched, pl.prevTree)
        p == [pl EXCEPT !.tree = fetched, !.updated = upd, !.pc = "getFile",
                        !.pending = {upd[k] : k \in 1..Len(upd)}]
        done == PullFetched(p)
    IN /\ pl.pc = "getTree"
       /\ IF Len(upd) = 0
          THEN /\ pl' = done[1]
               /\ mods' = done[2].mods
               /\ sha' = done[2].sha
               /\ tree' = done[2].tree
               /\ pstate' = done[3]
          ELSE /\ pl' = p
               /\ UNCHANGED <<mods, sha, tree, pstate>>
       /\ UNCHANGED <<remoteVars, q, subscribed, armed, local, runs, emptyRet,
                      cnt, aux>>

\* One getFile answers.  A path the head of the branch does not hold is
\* rejected, which rejects Promise.all and the pull (gfail is bookkeeping:
\* the path whose getFile was rejected).
PullGetFile(path) ==
    LET p == [pl EXCEPT !.pending = @ \ {path},
                        !.res = [x \in DOMAIN @ \cup {path} |->
                                    IF x = path THEN getFile(path) ELSE @[x]]]
        done == PullFetched(p)
    IN /\ pl.pc = "getFile"
       /\ path \in pl.pending
       /\ IF ~getFileFound(path)
          THEN /\ pl' = [pl EXCEPT !.pc = "threw", !.gfail = {path}]
               /\ UNCHANGED <<mods, sha, tree, pstate>>
          ELSE IF p.pending # {}
          THEN /\ pl' = p
               /\ UNCHANGED <<mods, sha, tree, pstate>>
          ELSE /\ pl' = done[1]
               /\ mods' = done[2].mods
               /\ sha' = done[2].sha
               /\ tree' = done[2].tree
               /\ pstate' = done[3]
       /\ UNCHANGED <<remoteVars, q, subscribed, armed, local, runs, emptyRet,
                      cnt, aux>>

\* getRef, getTree or a getFile of the pull fails.
PullFails ==
    /\ pl.pc \in {"getRef", "getTree", "getFile"}
    /\ CanFail
    /\ cnt' = Failed
    /\ pl' = [pl EXCEPT !.pc = "threw"]
    /\ UNCHANGED <<remoteVars, engineVars, pstate, subscribed, armed, local,
                   runs, emptyRet, aux>>

\* write(vault, path, content) for the next file of the loop of plugin.pull.
\* The outcome is "ok" (the file now has the content), "err" (write gave
\* Result.Err, which the loop reports before it goes on) or "throw" (write
\* rejected, which leaves the loop and the pull).
\*   writeConfig: a path under .obsidian is written by the adapter;
\*   vault.modify, for a file the vault has: a failure of process becomes
\*     Result.Err;
\*   vault.create, for a file the vault does not have: a failure of
\*     app.vault.create is not caught.
write(path, ok) ==
    IF ok THEN "ok"
    ELSE IF StartsWithObsidian(path) THEN "throw"
    ELSE IF local[path] # NoFile THEN "err"
    ELSE "throw"

PullWrite(ok) ==
    LET path == pl.updated[pl.widx]
        outcome == write(path, ok)
        last == pl.widx = Len(pl.updated)
        failed == IF outcome = "ok" THEN pl.wfail ELSE pl.wfail \cup {path}
    IN /\ pl.pc = "write"
       /\ ok \/ CanFail
       /\ cnt' = IF ok THEN cnt ELSE Failed
       /\ local' = IF outcome = "ok"
                   THEN [local EXCEPT ![path] = pl.res[path]]
                   ELSE local
       /\ IF outcome = "throw"
          THEN /\ pl' = [pl EXCEPT !.pc = "threw", !.wfail = failed]
               /\ pstate' = pstate
          ELSE IF last
          THEN /\ pl' = [pl EXCEPT !.pc = "done", !.wfail = failed]
               /\ pstate' = updateState(pstate, sha, tree)
          ELSE /\ pl' = [pl EXCEPT !.widx = @ + 1, !.wfail = failed]
               /\ pstate' = pstate
       /\ UNCHANGED <<remoteVars, engineVars, subscribed, armed, runs,
                      emptyRet, aux>>

\* plugin.pull is over.  After the pull of onload, onload goes on to
\* subscribe(); a pull that threw rejects its caller.
PullReturn ==
    /\ pl.pc \in {"done", "threw"}
    /\ subscribed' = (subscribed \/ (pl.onload /\ pl.pc = "done"))
    /\ pl' = IdlePull
    /\ UNCHANGED <<remoteVars, engineVars, pstate, armed, local, runs,
                   emptyRet, cnt, aux>>

\* ------------------------------------------------------- specification
Next ==
    \/ \E p \in Paths, c \in Contents : onCreate(p, c)
    \/ \E p \in Paths, c \in Contents : onModify(p, c)
    \/ \E p \in Paths : onDelete(p)
    \/ \E p \in Paths, prev \in Paths : onRename(p, prev)
    \/ SendCommitEmpty
    \/ \E r \in Slots : SendCommit(r)
    \/ \E r \in Slots, ok \in BOOLEAN : BuildStep(r, ok)
    \/ \E r \in Slots : SendCommitThrew(r)
    \/ \E r \in Slots : SendCommitBuilt(r)
    \/ \E r \in Slots : CommitFails(r)
    \/ \E r \in Slots : CommitGetRef(r)
    \/ \E r \in Slots : CommitCreateTree(r)
    \/ \E r \in Slots : CommitCreateCommit(r)
    \/ \E r \in Slots : CommitUpdateRef(r)
    \/ \E r \in Slots : CommitGetTree(r)
    \/ \E r \in Slots : SendCommitOk(r)
    \/ \E r \in Slots : SendCommitCatch(r)
    \/ CommitEmptyBatch
    \/ PullCommand
    \/ PullGetRef
    \/ PullGetTree
    \/ \E p \in Paths : PullGetFile(p)
    \/ PullFails
    \/ \E ok \in BOOLEAN : PullWrite(ok)
    \/ PullReturn

Spec == Init /\ [][Next]_vars

\* The pull engine and the plugin's pull alone, over every pair of a
\* persisted tree and a remote tree.
InitPull == InitWith(Repos, Repos)

NextPull ==
    \/ PullCommand
    \/ PullGetRef
    \/ PullGetTree
    \/ \E p \in Paths : PullGetFile(p)
    \/ PullFails
    \/ \E ok \in BOOLEAN : PullWrite(ok)
    \/ PullReturn

SpecPull == InitPull /\ [][NextPull]_vars

\* ------------------------------------------------------- claims
\* C1: at most one commit run is in flight at any time: no two runs are
\* simultaneously between their getRef and the end of their run.
C1_AtMostOneRunInFlight ==
    Cardinality({r \in Slots : InFlight(r)}) <= 1

\* C2: when a push is submitted while an earlier push's network calls are
\* outstanding, the commit the later one creates has the commit the earlier
\* one created as its parent.
C2_SecondBuildsOnFirst ==
    \A r \in Slots : \A c \in 1..Len(commits) :
        (/\ runs[r].newCommit # 0
         /\ runs[r].behind # 0
         /\ commits[c].by = runs[r].behind)
        => commits[runs[r].newCommit].parent = c

\* C3: batches are run strictly in the order of submission, so the remote
\* reference is updated in the order in which the batches were submitted.
C3_RefUpdatesInSubmissionOrder ==
    [][ref' # ref => commits'[ref'].by > commits[ref].by]_vars

\* C4: a push whose only pending modification is a create/update of a path
\* whose local content hash equals the snapshot's hash for that path makes
\* no remote mutation call.
C4_EqualHashPushMakesNoMutation ==
    \A r \in Slots :
        (/\ runs[r].pc = "built"
         /\ Len(runs[r].files) = 1
         /\ runs[r].files[1].action \in {"create", "update"}
         /\ runs[r].t = <<>>)
        => runs[r].nMut = 0

\* C5: a push with an empty pending change set, and commit of an empty
\* batch, make no remote-store call and leave the snapshot, the pending set,
\* the queue, the persisted state and the remote as they were; commit([])
\* returns the snapshot's reference and tree.
C5_EmptyPushIsNoop ==
    [][/\ (cnt'.noops # cnt.noops) =>
            UNCHANGED <<ref, commits, sha, tree, mods, q, pstate, local, runs,
                        pl>>
       /\ (cnt'.empties # cnt.empties) =>
            /\ emptyRet' = [sha |-> sha, tree |-> tree]
            /\ UNCHANGED <<ref, commits, sha, tree, mods, q, pstate, local,
                           runs, pl>>]_vars

\* C5 witness: an empty push happened after a commit had moved the remote,
\* and commit([]) was called twice.
C5_Witness ==
    /\ cnt.noops > 0
    /\ cnt.empties = MaxEmpty
    /\ emptyRet = [sha |-> sha, tree |-> tree]
    /\ ref # sha

\* C6: whenever a commit run reports failure, the remote reference has not
\* been advanced to that run's new commit.
C6_FailedRunLeavesRef ==
    \A r \in Slots : runs[r].pc = "failed" => ref # runs[r].newCommit

\* C7: after a successful commit run state.sha() is the id of the new commit
\* and state.tree() is the tree fetched at that commit.
C7_SnapshotReplacedAfterCommit ==
    \A r \in Slots :
        (runs[r].pc = "returned" /\ runs[r].newCommit # 0)
        => /\ sha = runs[r].newCommit
           /\ tree = getTree(runs[r].newCommit)

\* C8: when pull completes, the plugin's stored sha and tree and the
\* engine's state.sha()/state.tree() are the reference and the tree this
\* pull fetched.
C8_PullStoresFetchedSnapshot ==
    pl.pc = "done"
    => /\ pstate.sha = pl.latest
       /\ pstate.tree = pl.tree
       /\ sha = pl.latest
       /\ tree = pl.tree

\* C9: a failure to apply one changed file during pull does not abort the
\* pull, and the stored snapshot is still replaced by the fetched one.
C9_WriteFailureDoesNotAbortPull ==
    /\ pl.pc = "threw" => pl.wfail = {}
    /\ (pl.pc = "done" /\ pl.wfail # {})
       => (pstate.sha = pl.latest /\ pstate.tree = pl.tree)

\* The paths of newTree that prevTree lacks or holds with another hash.
ChangedPaths(newTree, prevTree) ==
    ((DOMAIN newTree) \ (DOMAIN prevTree))
    \cup {p \in (DOMAIN newTree) \cap (DOMAIN prevTree) :
             newTree[p] # prevTree[p]}

\* C10: pull fetches content for exactly the paths of the fetched tree that
\* prevTree lacks or holds with a different hash.
C10_PullFetchesExactlyChanged ==
    /\ pl.pc = "getFile" =>
         pl.pending \cup DOMAIN pl.res
            = ChangedPaths(getTree(pl.latest), pl.prevTree)
    /\ pl.pc \in {"write", "done"} =>
         DOMAIN pl.res = ChangedPaths(getTree(pl.latest), pl.prevTree)

\* C10 witness: every changed file has been fetched, a file was fetched
\* and a file with an equal hash was not.
C10_Witness ==
    /\ pl.pc = "write"
    /\ DOMAIN pl.res # {}
    /\ (DOMAIN getTree(pl.latest)) \ (DOMAIN pl.res) # {}

\* The paths a pull result reports as tombstones: the entries whose content
\* is the empty text.
Tombstones(res) == {p \in DOMAIN res : res[p] = <<>>}

\* C11: pull reports every path that the last-known snapshot holds and the
\* newly fetched tree lacks as a zero-content tombstone.
C11_PullReportsRemovedPaths ==
    pl.pc \in {"write", "done"}
    => ((DOMAIN pl.prevTree) \ (DOMAIN pl.tree)) \subseteq Tombstones(pl.res)

\* ------------------------------------------------------- component: tracker
\* An engine over an empty repository with nothing in progress.
InitIdle ==
    /\ commits = <<[message |-> <<>>, tree |-> EmptyRepo, parent |-> 0,
                    by |-> 0]>>
    /\ ref = 1
    /\ sha = 1
    /\ tree = EmptyRepo
    /\ mods = <<>>
    /\ q = <<>>
    /\ pstate = [sha |-> 1, tree |-> EmptyRepo]
    /\ subscribed = FALSE
    /\ armed = FALSE
    /\ local = LocalOf(EmptyRepo)
    /\ runs = [r \in Slots |-> IdleRun]
    /\ pl = IdlePull
    /\ emptyRet = NoRet
    /\ cnt = [events |-> 0, fails |-> 0, pulls |-> 0, calls |-> 0,
              noops |-> 0, empties |-> 0]

\* The variables the tracker's operations do not touch.
trackerRest ==
    <<ref, commits, sha, tree, q, pstate, subscribed, armed, local, runs, pl,
      emptyRet, cnt>>

\* The pending change set of githubState under any sequence of calls of its
\* operations.  aux is bookkeeping: per path the action last recorded since
\* the set was cleared ("none" when there is none), the last call and the
\* set before that call.
InitTracker ==
    /\ InitIdle
    /\ aux = [last |-> [p \in Paths |-> "none"], op |-> <<"none">>,
              before |-> <<>>]

\* StateCreate that also hands the path to the commit queue.
StateCreateQueues(path) ==
    /\ mods' = create(mods, path)
    /\ q' = Append(q, <<createTreeItem(path, NullSha)>>)
    /\ aux' = [last |-> [aux.last EXCEPT ![path] = "create"],
               op |-> <<"create", path>>, before |-> mods]
    /\ UNCHANGED <<ref, commits, sha, tree, pstate, subscribed, armed, local,
                   runs, pl, emptyRet, cnt>>

StateCreate(path) ==
    /\ mods' = create(mods, path)
    /\ aux' = [last |-> [aux.last EXCEPT ![path] = "create"],
               op |-> <<"create", path>>, before |-> mods]
    /\ UNCHANGED trackerRest

StateUpdate(path) ==
    /\ mods' = update(mods, path)
    /\ aux' = [last |-> [aux.last EXCEPT ![path] = "update"],
               op |-> <<"update", path>>, before |-> mods]
    /\ UNCHANGED trackerRest

StateDelete(path) ==
    /\ mods' = delete(mods, path)
    /\ aux' = [last |-> [aux.last EXCEPT ![path] = "delete"],
               op |-> <<"delete", path>>, before |-> mods]
    /\ UNCHANGED trackerRest

\* The vault reports a rename with two different paths.
StateRename(path, previousPath) ==
    /\ path # previousPath
    /\ mods' = rename(mods, path, previousPath)
    /\ aux' = [last |-> [aux.last EXCEPT ![path] = "create",
                                         ![previousPath] = "delete"],
               op |-> <<"rename", path, previousPath>>, before |-> mods]
    /\ UNCHANGED trackerRest

StateRefresh ==
    /\ mods' = refresh(State, sha, tree).mods
    /\ aux' = [last |-> [p \in Paths |-> "none"], op |-> <<"refresh">>,
               before |-> mods]
    /\ UNCHANGED trackerRest

NextTracker ==
    \/ \E p \in Paths : StateCreate(p)
    \/ \E p \in Paths : StateUpdate(p)
    \/ \E p \in Paths : StateDelete(p)
    \/ \E p \in Paths, prev \in Paths : StateRename(p, prev)
    \/ StateRefresh

SpecTracker == InitTracker /\ [][NextTracker]_vars

\* The entries of m stored under key.
EntriesAt(m, key) == {k \in 1..Len(m) : m[k].key = key}

\* C12: the pending change set holds at most one modification per path, the
\* one recorded last since the set was cleared, and every entry stored under
\* key p has path p.
C12_OneModificationPerPath ==
    /\ \A p \in Paths :
          IF aux.last[p] = "none"
          THEN EntriesAt(mods, p) = {}
          ELSE /\ Cardinality(EntriesAt(mods, p)) = 1
               /\ \A k \in EntriesAt(mods, p) : mods[k].action = aux.last[p]
    /\ \A k \in 1..Len(mods) : mods[k].key \in Paths /\ mods[k].path = mods[k].key

\* C12 witness: delete(p) was recorded over a pending create(p) and the
\* set holds the single entry delete for p.
C12_Witness ==
    /\ aux.op[1] = "delete"
    /\ \E k \in 1..Len(aux.before) :
          /\ aux.before[k].key = aux.op[2]
          /\ aux.before[k].action = "create"
    /\ Len(mods) = 1
    /\ mods[1].action = "delete"

\* C13: rename(p, q) on an empty pending set yields exactly {p: create,
\* q: delete}, and no stored modification has action "rename".
C13_RenameIsDesugared ==
    /\ \A k \in 1..Len(mods) : mods[k].action \in {"create", "update", "delete"}
    /\ (aux.op[1] = "rename" /\ aux.before = <<>>)
       => /\ Len(mods) = 2
          /\ {mods[k] : k \in 1..Len(mods)} =
                {[key |-> aux.op[2], path |-> aux.op[2], action |-> "create"],
                 [key |-> aux.op[3], path |-> aux.op[3], action |-> "delete"]}

\* C13 witness: a rename was recorded on an empty pending set.
C13_Witness ==
    /\ aux.op[1] = "rename"
    /\ aux.before = <<>>
    /\ Len(mods) = 2

\* The keys of the entries of a pending change set.
Keys(m) == {m[k].key : k \in 1..Len(m)}

\* C14: no recorded modification is lost: when a commit run completes, a
\* modification that was recorded after the run had captured its batch (its
\* path is not among the modifications the run captured) is still in the
\* pending change set.
C14_NoModificationLost ==
    [][\A r \in Slots :
          (runs[r].pc = "getTree" /\ runs'[r].pc = "returned")
          => \A k \in 1..Len(mods) :
                mods[k].key \notin Keys(runs[r].files)
                => \E j \in 1..Len(mods') : mods'[j] = mods[k]]_vars

\* ------------------------------------------------------- component: summary
\* All lists of at most n paths.
RECURSIVE PathLists(_)
PathLists(n) ==
    IF n = 0 THEN {<<>>}
    ELSE PathLists(n - 1)
         \cup {Append(l, p) : l \in {x \in PathLists(n - 1) : Len(x) = n - 1},
                               p \in Paths}

\* summary applied to any list of at most MaxFiles paths: aux is the list,
\* and the message once summary has returned.
InitSummary ==
    /\ InitIdle
    /\ \E files \in PathLists(MaxFiles) :
          aux = [files |-> files, message |-> <<>>, done |-> FALSE]

Summarise ==
    /\ ~aux.done
    /\ aux' = [aux EXCEPT !.message = summary(aux.files), !.done = TRUE]
    /\ UNCHANGED <<trackerRest, mods>>

NextSummary == Summarise

SpecSummary == InitSummary /\ [][NextSummary]_vars

\* The names of a non-empty list of paths with ", " between them.
CommaSeparated(paths) ==
    [i \in 1..(2 * Len(paths) - 1) |->
        IF i % 2 = 1 THEN PathName(paths[(i + 1) \div 2]) ELSE ", "]

\* C15: the message is "no files" for an empty list; "updated " and the
\* paths joined by ", " for 1 to 3 paths; for n > 3 paths "updated ", the
\* first three paths joined by ", ", then " and (n-3) more".
C15_SummaryMessage ==
    aux.done =>
        LET files == aux.files
            n == Len(files)
        IN aux.message =
              IF n = 0 THEN <<"no files">>
              ELSE IF n <= 3 THEN <<"updated ">> \o CommaSeparated(files)
              ELSE <<"updated ">> \o CommaSeparated(SubSeq(files, 1, 3))
                      \o <<" and ", ToString(n - 3), " more">>

\* C15 witness: the message of a list of more than three paths has been
\* computed and ends with the count of the paths left out.
C15_Witness ==
    /\ aux.done
    /\ Len(aux.files) = MaxFiles
    /\ Len(aux.message) = 9
    /\ aux.message[8] = ToString(MaxFiles - 3)

\* ------------------------------------------------------- component: hash
\* All texts of at most n characters.
RECURSIVE Texts(_)
Texts(n) ==
    IF n = 0 THEN {<<>>}
    ELSE Texts(n - 1)
         \cup {Append(t, ch) : t \in {x \in Texts(n - 1) : Len(x) = n - 1},
                                ch \in Chars}

\* A file with any text of at most MaxText characters is hashed locally
\* (computeSha) and uploaded (createBlob): aux is the content and the two
\* identifiers.
InitHash ==
    /\ InitIdle
    /\ \E content \in Texts(MaxText) :
          aux = [content |-> content, hash |-> <<>>, blob |-> <<>>,
                 done |-> FALSE]

HashAndUpload ==
    /\ ~aux.done
    /\ aux' = [aux EXCEPT !.hash = computeSha(aux.content),
                          !.blob = RemoteBlobId(aux.content),
                          !.done = TRUE]
    /\ UNCHANGED <<trackerRest, mods>>

NextHash == HashAndUpload

SpecHash == InitHash /\ [][NextHash]_vars

\* C16: for every content string the locally computed hash equals the blob
\* identifier the remote store assigns to that content.
C16_HashEqualsRemoteBlobId ==
    aux.done => aux.hash = aux.blob

\* C17: every public operation of the engine ends in a returned outcome: no
\* failure of the remote store or of a local read makes github.pull (a pull
\* that threw before the host's write loop began), buildTree or commit throw
\* or reject to the host.
C17_NoThrowAcrossBoundary ==
    /\ pl.pc = "threw" => pl.widx # 0
    /\ \A r \in Slots : runs[r].pc \notin {"threw", "failed"}

\* A pull is between its fetch of the remote reference and its replacement
\* of the snapshot (state.refresh).
PullHoldsSnapshot == pl.pc \in {"getTree", "getFile"}

\* A push is between buildTree's read of the snapshot for suppression and
\* the replacement of the snapshot at the end of its commit run.
RunHoldsSnapshot(r) == runs[r].pc \in {"build", "built"} \cup InFlightPcs

\* C18: pull and push are mutually exclusive with respect to the snapshot:
\* while a pull holds the snapshot no push reads it (starts buildTree) or
\* replaces it (ends its commit run), and while a push holds it no pull
\* replaces it.
C18_PullAndPushExclusive ==
    [][/\ PullHoldsSnapshot =>
            \A r \in Slots :
               /\ ~(runs[r].pc = "idle" /\ runs'[r].pc # "idle")
               /\ ~(runs[r].pc = "getTree" /\ runs'[r].pc = "returned")
       /\ (\E r \in Slots : RunHoldsSnapshot(r)) =>
            ~(PullHoldsSnapshot /\ pl'.pc \in {"write", "done"})]_vars

\* The next remote-store answer of a commit run in flight.
RunStep(r) ==
    \/ CommitGetRef(r)
    \/ CommitCreateTree(r)
    \/ CommitCreateCommit(r)
    \/ CommitUpdateRef(r)
    \/ CommitGetTree(r)

Strs == {"", "x"}

SettingsValues == [owner : Strs, repo : Strs, rsa : Strs]

\* DEFAULTS, and what loadData gives: nothing (present FALSE) or a stored
\* state.
DEFAULTS ==
    [present |-> FALSE, initialised |-> FALSE, sha |-> "",
     settings |-> [owner |-> "", repo |-> "", rsa |-> ""]]

StoredStates ==
    {DEFAULTS}
    \cup [present : {TRUE}, initialised : BOOLEAN, sha : Strs,
          settings : SettingsValues]

\* isInitialised without the test of settings.rsa.
isInitialisedNoRsa(state) ==
    \/ ~state.present
    \/ ~state.initialised
    \/ state.sha = ""
    \/ state.settings.owner = ""
    \/ state.settings.repo = ""

\* isInitialised: true when the state is NOT fit for a session.
isInitialised(state) ==
    \/ ~state.present
    \/ ~state.initialised
    \/ state.sha = ""
    \/ state.settings.owner = ""
    \/ state.settings.repo = ""
    \/ state.settings.rsa = ""

isSettingsValid(state) ==
    /\ state.settings.owner # ""
    /\ state.settings.repo # ""
    /\ state.settings.rsa # ""

NoSession == [started |-> FALSE, settings |-> DEFAULTS.settings, by |-> "none"]

\* github(settings): the session holds the settings it was started with.
\* The field by is bookkeeping: the caller.
github(settings, by) == [started |-> TRUE, settings |-> settings, by |-> by]

\* The plugin from its load on, with any stored state: aux is the loaded
\* data, this.state, the session (this.github), where the plugin stands
\* (start, pulling for onload or for initialise, loaded) and, as
\* bookkeeping, who called subscribe().
InitOnload ==
    /\ InitIdle
    /\ \E data \in StoredStates :
          aux = [data |-> data, state |-> DEFAULTS, session |-> NoSession,
                 pc |-> "start", caller |-> "none", subscribedBy |-> "none"]

\* onload up to its first wait after loadState: this.state is DEFAULTS
\* overlaid with the data; when isInitialised(data) holds onload returns,
\* else github(this.state.settings) is called and the pull follows.
Onload ==
    LET data == aux.data
        state == IF data.present THEN data ELSE DEFAULTS
    IN /\ aux.pc = "start"
       /\ IF isInitialised(data)
          THEN aux' = [aux EXCEPT !.state = state, !.pc = "loaded"]
          ELSE aux' = [aux EXCEPT !.state = state,
                                  !.session = github(state.settings, "onload"),
                                  !.pc = "pulling", !.caller = "onload"]
       /\ UNCHANGED <<trackerRest, mods>>

\* The pull of onload or of initialise ends.  When it resolves, initialise
\* calls setInitialised with the session's reference, and both callers go on
\* to subscribe(); when github() or the pull rejects, the caller is left.
OnloadPullEnds(ok) ==
    /\ aux.pc = "pulling"
    /\ IF ok
       THEN /\ subscribed' = TRUE
            /\ aux' = [aux EXCEPT
                  !.pc = "loaded", !.subscribedBy = aux.caller,
                  !.state = IF aux.caller = "initialise"
                            THEN [@ EXCEPT !.present = TRUE,
                                           !.initialised = TRUE, !.sha = "x"]
                            ELSE @]
       ELSE /\ subscribed' = subscribed
            /\ aux' = [aux EXCEPT !.pc = "loaded"]
    /\ UNCHANGED <<remoteVars, engineVars, pstate, armed, local, runs, pl,
                   emptyRet, cnt>>

\* A field of the settings tab changes: updateSettings({...settings, field}).
updateSettings(state, settings) == [state EXCEPT !.settings = settings]

SettingsChange(settings) ==
    /\ aux.pc # "start"
    /\ settings # aux.state.settings
    /\ \E f \in {"owner", "repo", "rsa"} :
          settings = [aux.state.settings EXCEPT ![f] = settings[f]]
    /\ aux' = [aux EXCEPT !.state = updateSettings(aux.state, settings)]
    /\ UNCHANGED <<trackerRest, mods>>

\* The Initialise button: nothing happens unless isSettingsValid, else
\* initialise() calls github(this.state.settings) and pulls.
InitialiseButton ==
    /\ aux.pc = "loaded"
    /\ isSettingsValid(aux.state)
    /\ aux' = [aux EXCEPT !.session = github(aux.state.settings, "initialise"),
                          !.pc = "pulling", !.caller = "initialise"]
    /\ UNCHANGED <<trackerRest, mods>>

\* The Clear state button: updateState("", {}).
ClearState ==
    /\ aux.pc = "loaded"
    /\ aux.state.sha # ""
    /\ aux' = [aux EXCEPT !.state.sha = ""]
    /\ UNCHANGED <<trackerRest, mods>>

NextOnload ==
    \/ Onload
    \/ \E ok \in BOOLEAN : OnloadPullEnds(ok)
    \/ \E settings \in SettingsValues : SettingsChange(settings)
    \/ InitialiseButton
    \/ ClearState

SpecOnload == InitOnload /\ [][NextOnload]_vars

\* C20: a session is started only with owner, repo and private key all
\* non-empty; and after onload with stored settings missing any of them, or
\* with initialised false or an empty stored sha (or nothing stored), onload
\* has started no session and subscribed to no file events.
C20_SessionNeedsCompleteSettings ==
    /\ aux.session.started =>
          /\ aux.session.settings.owner # ""
          /\ aux.session.settings.repo # ""
          /\ aux.session.settings.rsa # ""
    /\ (/\ aux.pc # "start"
        /\ \/ ~aux.data.present
           \/ ~aux.data.initialised
           \/ aux.data.sha = ""
           \/ \E f \in {"owner", "repo", "rsa"} : aux.data.settings[f] = "")
       => /\ aux.session.by # "onload"
          /\ aux.subscribedBy # "onload"
          /\ (aux.session.by = "none" => ~subscribed)

\* C20 witness: onload has returned on a stored state that is initialised,
\* has a sha, an owner and a repo, and lacks the private key: there is no
\* session and no subscription.
C20_Witness ==
    /\ aux.pc = "loaded"
    /\ aux.data.present
    /\ aux.data.initialised
    /\ aux.data.sha # ""
    /\ aux.data.settings = [owner |-> "x", repo |-> "x", rsa |-> ""]
    /\ ~aux.session.started
    /\ ~subscribed

\* C21: a push behind a run that already wrote the same path with the same
\* content suppresses itself: no run creates a commit that writes a path
\* with the blob its parent commit, made by an earlier run, already holds
\* at that path.
C21_SecondPushSuppressesItself ==
    [][\A r \in Slots :
          (runs[r].pc = "createCommit" /\ runs'[r].pc = "updateRef"
           /\ commits[runs[r].latest].by > 0)
          => \A k \in 1..Len(runs[r].batch) :
                runs[r].batch[k].sha # NullSha
                => ShaAt(getTree(runs[r].latest), runs[r].batch[k].path)
                      # runs[r].batch[k].sha]_vars

\* C22: when a push fails, the pending change set is left as drained: with
\* no file event since the push captured its modifications, none of the
\* modifications of the failed batch is in the pending set.
C22_FailedPushLeavesSetDrained ==
    \A r \in Slots :
        (runs[r].pc \in {"failed", "threw"} /\ cnt.events = runs[r].events)
        => Keys(runs[r].files) \cap Keys(mods) = {}

\* C23: pull never removes pending modifications: no step of a pull changes
\* the pending change set.
C23_PullKeepsPendingSet ==
    [][pl' # pl => mods' = mods]_vars

\* C24: recording a change (create, update, delete, rename) changes only the
\* pending change set: the snapshot, the commit queue and the remote are as
\* they were and no run or pull is started.
C24_RecordingChangesOnlyPendingSet ==
    [][aux'.op[1] \in {"create", "update", "delete", "rename"}
       => UNCHANGED <<sha, tree, q, ref, commits, runs, pl, pstate>>]_vars

\* C24 witness: an update was recorded that changed a non-empty pending set.
C24_Witness ==
    /\ aux.op[1] = "update"
    /\ aux.before # <<>>
    /\ mods # aux.before
    /\ q = <<>>
    /\ sha = 1

\* The tree of commit base with the items of a batch laid over it, path by
\* path: a written path has the item's blob, a deleted path is absent, any
\* other path is as in base.
Overlaid(base, batch) ==
    LET Items(p) == {k \in 1..Len(batch) : batch[k].path = p}
        Deleted(p) == \E k \in Items(p) : batch[k].sha = NullSha
        Written(p) == \E k \in Items(p) : batch[k].sha # NullSha
        old == getTree(base)
        held == {p \in Paths : Written(p) \/ (p \in DOMAIN old /\ ~Deleted(p))}
    IN [p \in held |->
          IF Written(p)
          THEN batch[CHOOSE k \in Items(p) : batch[k].sha # NullSha].sha
          ELSE old[p]]

\* C25: every commit a run creates has as its single parent, and as the base
\* of its tree, the remote reference that run read at its start (and holds
\* until its end); when the run advances the reference, it advances it to
\* exactly that commit.
C25_CommitBuiltOnReferenceRead ==
    [][\A r \in Slots :
          /\ (runs[r].pc = "getRef" /\ runs'[r].pc = "createTree")
             => runs'[r].latest = ref
          /\ (runs[r].pc \in InFlightPcs \ {"getRef"} /\ InFlight(r)')
             => runs'[r].latest = runs[r].latest
          /\ (runs[r].pc = "createCommit" /\ runs'[r].pc = "updateRef")
             => /\ Len(commits') = Len(commits) + 1
                /\ runs'[r].newCommit = Len(commits')
                /\ commits'[Len(commits')].parent = runs[r].latest
                /\ commits'[Len(commits')].tree
                      = Overlaid(runs[r].latest, runs[r].batch)
          /\ (runs[r].pc = "updateRef" /\ runs'[r].pc = "getTree")
             => ref' = runs[r].newCommit]_vars

\* C25 witness: a run read a reference other than the snapshot's, and the
\* branch now points at the commit it built on that reference.
C25_Witness ==
    \E r \in Slots :
        /\ runs[r].pc = "getTree"
        /\ runs[r].latest # sha
        /\ ref = runs[r].newCommit
        /\ commits[ref].parent = runs[r].latest

\* C26: a commit run that succeeds returns the id of the commit it created
\* with the tree of that commit, and the host stores exactly that pair as
\* its persisted sha and tree.
C26_RunReturnsCommitAndTree ==
    [][\A r \in Slots :
          /\ (runs[r].pc = "getTree" /\ runs'[r].pc = "returned")
             => /\ runs'[r].ret.sha = runs[r].newCommit
                /\ runs'[r].ret.tree = commits[runs[r].newCommit].tree
          /\ (runs[r].pc = "returned" /\ runs'[r].pc = "idle")
             => /\ pstate'.sha = runs[r].newCommit
                /\ pstate'.tree = commits[runs[r].newCommit].tree]_vars

\* C26 witness: every push has ended and the persisted pair is a commit made
\* by a run and its tree, which the engine's own snapshot is not.
C26_Witness ==
    /\ \A r \in Slots : runs[r].pc = "idle"
    /\ pstate.sha # sha
    /\ commits[pstate.sha].by > 0
    /\ pstate.tree = commits[pstate.sha].tree

\* C27: when the fetch of one changed path fails during pull because the
\* path is missing remotely, the pull is not aborted.
C27_MissingFileDoesNotAbortPull ==
    pl.gfail # {} => pl.pc # "threw"

\* The commits made by the commit() call number seq.
CommitsBy(seq) == {c \in 1..Len(commits) : commits[c].by = seq}

\* C28: batches are never merged: a commit() call with a non-empty batch
\* runs with exactly the batch it was given, creates at most one commit,
\* and exactly one when it succeeds; the tree of that commit is its parent's
\* with exactly that batch's entries laid over it and its message is the
\* summary of exactly that batch's paths.
C28_BatchesNeverMerged ==
    /\ [](\A r \in Slots :
             /\ InFlight(r) =>
                   /\ runs[r].t # <<>>
                   /\ runs[r].batch = runs[r].t
                   /\ Cardinality(CommitsBy(runs[r].seq)) <= 1
             /\ (runs[r].pc = "returned" /\ runs[r].newCommit # 0) =>
                   CommitsBy(runs[r].seq) = {runs[r].newCommit})
    /\ [][\A r \in Slots :
             (runs[r].pc = "createCommit" /\ runs'[r].pc = "updateRef")
             => /\ commits'[Len(commits')].message
                      = summary(PathsOf(runs[r].t))
                /\ commits'[Len(commits')].tree
                      = Overlaid(runs[r].latest, runs[r].t)]_vars

\* C28 witness: two pushes have each made their own commit, the second on
\* top of the first, with different messages.
C28_Witness ==
    \E c \in 1..Len(commits) :
        /\ commits[c].by > 0
        /\ ref # c
        /\ commits[ref].by > commits[c].by
        /\ commits[ref].parent = c
        /\ commits[ref].message # commits[c].message

\* C29: no-op suppression never hides a real change: when buildTree drops a
\* create/update entry from the batch (the content was read and uploaded and
\* no entry for the path was added), the blob the remote holds for that path
\* at the head of the branch is the blob of the local content.
C29_SuppressionHidesNoChange ==
    [][\A r \in Slots :
          (/\ runs[r].pc = "build"
           /\ runs'[r].pc \in {"build", "built"}
           /\ runs'[r].nMut = runs[r].nMut + 1
           /\ \A k \in 1..Len(runs'[r].t) :
                 runs'[r].t[k].path # runs[r].files[runs[r].i].path)
          => ShaAt(getTree(ref), runs[r].files[runs[r].i].path)
                = RemoteBlobId(local[runs[r].files[runs[r].i].path])]_vars

\* C30: a commit run that fails leaves the snapshot unchanged.  A run that
\* fails takes neither the step that ends getTree with a result nor the
\* step that stores a result; every other step of a run, the failing step
\* and the catch of sendCommit included, leaves state.sha(), state.tree()
\* and the persisted sha and tree as they were, and a failed run has no
\* result to store.
C30_FailedRunKeepsSnapshot ==
    /\ [][\A r \in Slots :
             (/\ runs'[r] # runs[r]
              /\ runs[r].pc # "returned"
              /\ runs'[r].pc # "returned")
             => UNCHANGED <<sha, tree, pstate>>]_vars
    /\ [][\A r \in Slots :
             runs[r].pc = "failed" => runs'[r].pc \in {"failed", "idle"}]_vars

\* C30 witness: getTree failed after the branch was moved to the run's
\* commit; the run has ended as failed, and neither the snapshot nor the
\* persisted state is at that commit.
C30_Witness ==
    \E r \in Slots :
        /\ runs[r].pc = "failed"
        /\ runs[r].newCommit # 0
        /\ ref = runs[r].newCommit
        /\ sha # ref
        /\ pstate.sha # ref
        /\ pstate.sha = sha
        /\ pstate.tree = tree

C32_QueueEmptyAtSuspension ==
    \A r \in Slots :
        /\ (InFlight(r) \/ runs[r].pc \in {"returned", "failed"}) => q = <<>>
        /\ runs[r].pc = "returned" =>
              /\ runs[r].newCommit # 0
              /\ runs[r].ret.sha = runs[r].newCommit

\* C32 witness: a call has passed its finally block and returned while a
\* call submitted behind it is suspended on the remote store.
C32_Witness ==
    \E r \in Slots, o \in Slots :
        /\ runs[r].pc = "returned"
        /\ InFlight(o)
        /\ runs[o].behind = runs[r].seq
        /\ runs[o].batch # <<>>
        /\ q = <<>>

\* C33: every tombstone (entry with a null sha) of a batch built by
\* buildTree names a path of the snapshot tree the batch was built against.
C33_TombstonesNameSnapshotPaths ==
    \A r \in Slots :
        \A k \in 1..Len(runs[r].t) :
            runs[r].t[k].sha = NullSha
            => runs[r].t[k].path \in DOMAIN runs[r].repo

\* ------------------------------------------------- component: per-file sync
\* The per-file sync of main.ts: onCreate/onModify list the path in
\* state.modifiedFiles, wait for debouncedSend, read latestCommit and clear
\* the list.  state.initialised holds throughout.  Each handler run h is one
\* call of onCreate or onModify (their bodies are the same).
MaxHandlers == 3

Handlers == 1..MaxHandlers

Range(s) == {s[k] : k \in 1..Len(s)}

\* A handler run that has not been called.
IdleHandler == [pc |-> "idle", path |-> 0, files |-> <<>>, res |-> {}]

\* addModifiedFile: the path is appended unless the list has it.
addModifiedFile(modifiedFiles, path) ==
    IF \E k \in 1..Len(modifiedFiles) : modifiedFiles[k] = path
    THEN modifiedFiles
    ELSE modifiedFiles \o <<path>>

\* aux: state.modifiedFiles, the keys of state.remote, this.timeout (the
\* handler run whose timer is pending, 0 for null), the handler runs, and as
\* bookkeeping the paths whose event was handled and the paths handed to a
\* send.
InitSend ==
    /\ InitIdle
    /\ aux = [modifiedFiles |-> <<>>, remote |-> {}, timeout |-> 0,
              h |-> [h \in Handlers |-> IdleHandler],
              handled |-> {}, sent |-> {}]

restSend ==
    <<ref, commits, sha, tree, mods, q, pstate, subscribed, armed, local,
      runs, pl, emptyRet, cnt>>

\* onCreate/onModify up to the wait for saveData in addModifiedFile: update
\* has assigned this.state before that wait.
MainOnChange(h, path) ==
    /\ aux.h[h].pc = "idle"
    /\ \A o \in Handlers : o < h => aux.h[o].pc # "idle"
    /\ aux' = [aux EXCEPT
                 !.modifiedFiles = addModifiedFile(@, path),
                 !.handled = @ \cup {path},
                 !.h[h] = [IdleHandler EXCEPT !.pc = "saving", !.path = path]]
    /\ UNCHANGED restSend

\* saveData answered: the handler calls debouncedSend, whose promise
\* executor clears the pending timer, if any, and sets its own.
debouncedSend(h) ==
    /\ aux.h[h].pc = "saving"
    /\ aux' = [aux EXCEPT !.timeout = h, !.h[h].pc = "waiting"]
    /\ UNCHANGED restSend

\* The timer of h fires: this.timeout = null and send is called with
\* this.state.modifiedFiles as it is now.
TimerFires(h) ==
    /\ aux.timeout = h
    /\ aux.h[h].pc = "waiting"
    /\ aux' = [aux EXCEPT !.timeout = 0,
                          !.sent = @ \cup Range(aux.modifiedFiles),
                          !.h[h].pc = "sending",
                          !.h[h].files = aux.modifiedFiles]
    /\ UNCHANGED restSend

\* send ends.  Its result holds the paths it uploaded (the paths whose
\* content differs from the remote's, an input); it throws when a file
\* cannot be read or an upload is refused, and then the timer callback
\* rejects without calling resolve.
send(h, uploaded, ok) ==
    /\ aux.h[h].pc = "sending"
    /\ uploaded \subseteq Range(aux.h[h].files)
    /\ ok \/ (uploaded = {} /\ aux.h[h].files # <<>>)
    /\ aux' = IF ok
              THEN [aux EXCEPT !.h[h].pc = "latest", !.h[h].res = uploaded]
              ELSE [aux EXCEPT !.h[h].pc = "threw"]
    /\ UNCHANGED restSend

\* latestCommit answered: update clears modifiedFiles and merges the result
\* of send into remote, then waits for saveData.
MainUpdate(h) ==
    /\ aux.h[h].pc = "latest"
    /\ aux' = [aux EXCEPT !.modifiedFiles = <<>>,
                          !.remote = @ \cup aux.h[h].res,
                          !.h[h].pc = "update"]
    /\ UNCHANGED restSend

\* saveData answered: the handler finishes.
MainHandlerEnds(h) ==
    /\ aux.h[h].pc = "update"
    /\ aux' = [aux EXCEPT !.h[h].pc = "finished"]
    /\ UNCHANGED restSend

NextSend ==
    \/ \E h \in Handlers, path \in Paths : MainOnChange(h, path)
    \/ \E h \in Handlers : debouncedSend(h)
    \/ \E h \in Handlers : TimerFires(h)
    \/ \E h \in Handlers, uploaded \in SUBSET Paths, ok \in BOOLEAN :
          send(h, uploaded, ok)
    \/ \E h \in Handlers : MainUpdate(h)
    \/ \E h \in Handlers : MainHandlerEnds(h)

SpecSend == InitSend /\ [][NextSend]_vars

\* Timers fire and the store and the remote answer; nothing obliges the
\* user to change a file.
FairSend ==
    \A h \in Handlers :
        /\ WF_vars(debouncedSend(h))
        /\ WF_vars(TimerFires(h))
        /\ WF_vars(\E uploaded \in SUBSET Paths, ok \in BOOLEAN :
                      send(h, uploaded, ok))
        /\ WF_vars(MainUpdate(h))
        /\ WF_vars(MainHandlerEnds(h))

SpecSendFair == SpecSend /\ FairSend

\* No timer is pending and no handler run has a step left to take.
SendQuiescent ==
    /\ aux.timeout = 0
    /\ \A h \in Handlers : aux.h[h].pc \in {"idle", "waiting", "threw",
                                            "finished"}

\* C34: in the per-file sync no changed path is lost: once the timers have
\* fired and the sends have ended, every path whose change event was handled
\* was handed to some send or is still listed in modifiedFiles.
C34_ChangedPathNotLost ==
    SendQuiescent =>
        aux.handled \subseteq (aux.sent \cup Range(aux.modifiedFiles))

\* C35: every promise returned by debouncedSend eventually resolves: a
\* handler run that waits for it goes on to read latestCommit, unless its
\* send threw.
C35_DebouncedSendResolves ==
    \A h \in Handlers :
        (aux.h[h].pc = "waiting")
            ~> (aux.h[h].pc \in {"latest", "update", "finished", "threw"})

\* ------------------------------------------------- component: Result
\* JavaScript values as <<kind, n>>: null, the booleans, the numbers 0 and
\* 1, the strings "" and "x" (a string by its length).
Null == <<0, 0>>

Values == {Null, <<1, 0>>, <<1, 1>>, <<2, 0>>, <<2, 1>>, <<3, 0>>, <<3, 1>>}

\* The truthiness of a value: null, false, 0 and "" are falsy.
Truthy(value) == value[1] # 0 /\ value[2] # 0

Errs == {"", "no"}

OK == "ok"

ERR == "err"

\* unit(value, err = ""): the variant is ERR when err is truthy or value is
\* falsy.  The record keeps the value and the err of the closure; an ERR
\* result shows err and an OK result shows value.
unit(value, err) ==
    [type |-> IF err # "" \/ ~Truthy(value) THEN ERR ELSE OK,
     value |-> value, err |-> err]

Err(err) == unit(Null, err)

Ok(value) == unit(value, "")

\* The functions given to map: what each does with a value is a return or
\* a throw.  "prop" reads a property of its argument, which throws for
\* null; "bare" throws a value that has no message.
MapFs == {"same", "one", "zero", "prop", "throws", "bare"}

NoMessage == "undefined"

Returns(value) == [thrown |-> FALSE, value |-> value, message |-> ""]

Throws(message) == [thrown |-> TRUE, value |-> Null, message |-> message]

Apply(f, value) ==
    CASE f = "same" -> Returns(value)
      [] f = "one" -> Returns(<<2, 1>>)
      [] f = "zero" -> Returns(<<2, 0>>)
      [] f = "prop" -> IF value = Null THEN Throws("null has no properties")
                       ELSE Returns(<<2, 1>>)
      [] f = "throws" -> Throws("boom")
      [] f = "bare" -> Throws(NoMessage)

\* (e as Error).message ?? "error"
MessageOf(a) == IF a.message = NoMessage THEN "error" ELSE a.message

\* map of the result r = unit(value, err): try { return Ok(f(value)) }
\* catch (e) { return Err(message) }
map(r, f) ==
    LET a == Apply(f, r.value)
    IN IF a.thrown THEN Err(MessageOf(a)) ELSE Ok(a.value)

\* The functions given to bind and bindAsync return a Result or throw.
BindFs == {"ok", "err", "prop", "throws"}

ApplyBind(f, value) ==
    CASE f = "ok" -> Returns(Ok(value))
      [] f = "err" -> Returns(Err("no"))
      [] f = "prop" -> IF value = Null THEN Throws("null has no properties")
                       ELSE Returns(Ok(<<2, 1>>))
      [] f = "throws" -> Throws("boom")

\* bind: try { return f(value) } catch (e) { return Err(message) }
bind(r, f) ==
    LET a == ApplyBind(f, r.value)
    IN IF a.thrown THEN Err(MessageOf(a)) ELSE a.value

\* bindAsync: as bind, with the promise of f awaited inside the try.
bindAsync(r, f) ==
    LET a == ApplyBind(f, r.value)
    IN IF a.thrown THEN Err(MessageOf(a)) ELSE a.value

MaxOps == 2

\* aux: the last call (op with its argument: the value arg of Ok, the string
\* e of Err, the function f and the result r that map, bind or bindAsync was
\* called on), its result out, and the number of map/bind/bindAsync calls
\* made on the chain.
InitResult ==
    /\ InitIdle
    /\ aux = [op |-> "none", arg |-> Null, e |-> "", f |-> "none",
              r |-> Err(""), out |-> Err(""), n |-> 0]

restResult ==
    <<ref, commits, sha, tree, mods, q, pstate, subscribed, armed, local,
      runs, pl, emptyRet, cnt>>

ResultOk(value) ==
    /\ aux.op = "none"
    /\ aux' = [aux EXCEPT !.op = "Ok", !.arg = value, !.out = Ok(value)]
    /\ UNCHANGED restResult

ResultErr(err) ==
    /\ aux.op = "none"
    /\ aux' = [aux EXCEPT !.op = "Err", !.e = err, !.out = Err(err)]
    /\ UNCHANGED restResult

ResultMap(f) ==
    /\ aux.op # "none"
    /\ aux.n < MaxOps
    /\ aux' = [aux EXCEPT !.op = "map", !.f = f, !.r = aux.out,
                          !.out = map(aux.out, f), !.n = @ + 1]
    /\ UNCHANGED restResult

ResultBind(f) ==
    /\ aux.op # "none"
    /\ aux.n < MaxOps
    /\ aux' = [aux EXCEPT !.op = "bind", !.f = f, !.r = aux.out,
                          !.out = bind(aux.out, f), !.n = @ + 1]
    /\ UNCHANGED restResult

ResultBindAsync(f) ==
    /\ aux.op # "none"
    /\ aux.n < MaxOps
    /\ aux' = [aux EXCEPT !.op = "bindAsync", !.f = f, !.r = aux.out,
                          !.out = bindAsync(aux.out, f), !.n = @ + 1]
    /\ UNCHANGED restResult

NextResult ==
    \/ \E value \in Values : ResultOk(value)
    \/ \E err \in Errs : ResultErr(err)
    \/ \E f \in MapFs : ResultMap(f)
    \/ \E f \in BindFs : ResultBind(f)
    \/ \E f \in BindFs : ResultBindAsync(f)

SpecResult == InitResult /\ [][NextResult]_vars

\* C36: Result.Ok(v) is the OK variant carrying v for every value v other
\* than null, the falsy ones false, 0 and "" included, and Result.Err(e) is
\* the ERR variant for every string e.
C36_VariantIndependentOfTruthiness ==
    /\ (aux.op = "Ok" /\ aux.arg # Null)
          => (aux.out.type = OK /\ aux.out.value = aux.arg)
    /\ aux.op = "Err" => (aux.out.type = ERR /\ aux.out.err = aux.e)

\* C37: map, bind and bindAsync on an ERR result that carries an error
\* return an ERR with the same error (so a function that returns an OK
\* result has not been applied); on an OK result a function that throws
\* yields an ERR with the thrown message.
C37_ErrShortCircuits ==
    aux.op \in {"map", "bind", "bindAsync"} =>
        /\ (aux.r.type = ERR /\ aux.r.err # "")
              => (aux.out.type = ERR /\ aux.out.err = aux.r.err)
        /\ (aux.r.type = OK /\ aux.f \in {"throws", "bare"}) =>
              /\ aux.out.type = ERR
              /\ aux.out.err = IF aux.f = "throws" THEN "boom" ELSE "error"

====
